---- MODULE Spec2Model ----
(***************************************************************************)
(* Model of MarianAttentionV2 (fastseq/optimizer/transformers/             *)
(* modeling_marian_optimizer.py): the beam-aware attention forward pass.   *)
(*                                                                         *)
(* A tensor is a record [shape, strides, data]: shape is the tuple of      *)
(* dimension sizes, strides the strides of the contiguous layout, data the *)
(* elements in contiguous (row-major) order.  Elements are                 *)
(* symbolic terms, so that the model tracks which input element ends up    *)
(* where: a view only replaces the shape, a transpose or a slice moves the *)
(* elements, a contraction builds the term of the products it sums.  A     *)
(* softmax element names the row it normalizes and its place in that row,  *)
(* an out_proj element the row it projects and its output channel: the     *)
(* rows themselves are the logits and the context of the result.           *)
(***************************************************************************)
EXTENDS Integers, Sequences, FiniteSets, TLC

\* ------------------------------------------------------------------ bounds
MaxBatch == 4
MaxBeams == 2
MaxTgtLen == 2
MaxSrcLen == 2
MaxPastLen == 1
MaxSteps == 2
NumHeads == 2
HeadDim == 1

\* ------------------------------------------------------- tensor primitives
RECURSIVE Numel(_)
Numel(shape) == IF shape = <<>> THEN 1 ELSE Head(shape) * Numel(Tail(shape))

\* the strides of a contiguous tensor of the given shape
Strides(shape) ==
  [i \in 1..Len(shape) |-> Numel(SubSeq(shape, i + 1, Len(shape)))] \o <<>>

\* a contiguous tensor: shape, strides and data are kept as evaluated tuples
Tensor(shape, data) ==
  [shape |-> shape \o <<>>, strides |-> Strides(shape), data |-> data \o <<>>]

None == Tensor(<<>>, <<>>)

NoCache == <<>>

\* the index of the element at offset k of a tensor of the given shape and
\* strides
Unravel(k, shape, strides) ==
  [i \in 1..Len(shape) |-> (k \div strides[i]) % shape[i]]

RECURSIVE Offset(_, _, _)
Offset(idx, strides, i) ==
  IF i = 0 THEN 0 ELSE idx[i] * strides[i] + Offset(idx, strides, i - 1)

\* the element of t at index idx
At(t, idx) == t.data[Offset(idx, t.strides, Len(t.strides)) + 1]

\* the product of the sizes a view's shape states, its -1 left out
Known(shape) ==
  Numel([i \in 1..Len(shape) |-> IF shape[i] = -1 THEN 1 ELSE shape[i]])

\* Tensor.view(shape): whether the view exists
CanView(t, shape) ==
  IF \E i \in 1..Len(shape) : shape[i] = -1
  THEN Known(shape) > 0 /\ Len(t.data) % Known(shape) = 0
  ELSE Numel(shape) = Len(t.data)

\* Tensor.view(shape) / Tensor.reshape(shape) of a contiguous tensor
View(t, shape) ==
  Tensor([i \in 1..Len(shape) |->
            IF shape[i] = -1 THEN Len(t.data) \div Known(shape) ELSE shape[i]],
         t.data)

Swap(s, i, j) ==
  [k \in 1..Len(s) |-> IF k = i THEN s[j] ELSE IF k = j THEN s[i] ELSE s[k]]

\* Tensor.transpose(d0, d1).contiguous(), dimensions counted from 0
Transpose(t, d0, d1) ==
  LET shape == Swap(t.shape, d0 + 1, d1 + 1)
      st == Strides(shape)
  IN  Tensor(shape,
             [k \in 1..Numel(shape) |->
                At(t, Swap(Unravel(k - 1, shape, st), d0 + 1, d1 + 1))])

\* torch.cat([a, b], dim): whether the shapes allow it
CanCat(a, b, dim) ==
  /\ Len(a.shape) = Len(b.shape)
  /\ \A i \in 1..Len(a.shape) : i # dim + 1 => a.shape[i] = b.shape[i]

\* torch.cat([a, b], dim)
Cat(a, b, dim) ==
  LET shape == [a.shape EXCEPT ![dim + 1] = a.shape[dim + 1] + b.shape[dim + 1]]
      st == Strides(shape)
  IN  Tensor(shape,
             [k \in 1..Numel(shape) |->
                LET ix == Unravel(k - 1, shape, st)
                IN  IF ix[dim + 1] < a.shape[dim + 1]
                    THEN At(a, ix)
                    ELSE At(b, [ix EXCEPT ![dim + 1] = @ - a.shape[dim + 1]])])

\* variant of the slice that keeps the last beam of each group, t[:, -1:]
SliceLastBeam(t) ==
  LET shape == [t.shape EXCEPT ![2] = IF @ > 0 THEN 1 ELSE 0]
      st == Strides(shape)
  IN  Tensor(shape,
        [k \in 1..Numel(shape) |->
           At(t, [Unravel(k - 1, shape, st) EXCEPT ![2] = t.shape[2] - 1])])

\* t[:, 0:1, :, :, :].contiguous()
SliceFirstBeam(t) ==
  LET shape == [t.shape EXCEPT ![2] = IF @ > 0 THEN 1 ELSE 0]
      st == Strides(shape)
  IN  Tensor(shape, [k \in 1..Numel(shape) |-> At(t, Unravel(k - 1, shape, st))])

\* nn.Linear named name applied to the last dimension of x: channel c of the
\* projection of a row, given by its elements
Linear(x, name) ==
  LET width == x.shape[Len(x.shape)]
  IN  Tensor(x.shape,
             [k \in 1..Len(x.data) |->
                <<name, (k - 1) % width,
                  SubSeq(x.data, k - ((k - 1) % width), k - ((k - 1) % width) + width - 1)>>])

\* elementwise multiplication by the scalar named name
Scale(x, name) ==
  Tensor(x.shape, [k \in 1..Len(x.data) |-> <<"scale", x.data[k], name>>])

Max(a, b) == IF a >= b THEN a ELSE b

\* the index into a dimension of size n that a broadcast reads for index i
Bcast(i, n) == IF n = 1 THEN 0 ELSE i

Compatible(m, n) == m = n \/ m = 1 \/ n = 1

\* torch.einsum("bmhtd,bnhsd->bmhts", q, k): whether the operands fit
CanEinsumScores(q, k) ==
  /\ Len(q.shape) = 5 /\ Len(k.shape) = 5
  /\ Compatible(q.shape[1], k.shape[1])
  /\ Compatible(q.shape[3], k.shape[3])
  /\ Compatible(q.shape[5], k.shape[5])

\* variant of the contraction with the output subscripts "bhmts"
EinsumScoresHeadsFirst(q, k) ==
  LET shape == <<Max(q.shape[1], k.shape[1]), Max(q.shape[3], k.shape[3]),
                 q.shape[2], q.shape[4], k.shape[4]>>
      nd == Max(q.shape[5], k.shape[5])
      st == Strides(shape)
  IN  Tensor(shape,
        [i \in 1..Numel(shape) |->
           LET ix == Unravel(i - 1, shape, st)
           IN  <<"sum",
                 [j \in 1..(k.shape[2] * nd) |->
                    LET n == (j - 1) \div nd
                        d == (j - 1) % nd
                    IN  <<At(q, <<Bcast(ix[1], q.shape[1]), ix[3],
                                  Bcast(ix[2], q.shape[3]), ix[4],
                                  Bcast(d, q.shape[5])>>),
                          At(k, <<Bcast(ix[1], k.shape[1]), n,
                                  Bcast(ix[2], k.shape[3]), ix[5],
                                  Bcast(d, k.shape[5])>>)>>] \o <<>>>>])

\* torch.einsum("bmhtd,bnhsd->bmhts", q, k): n and d are summed
EinsumScores(q, k) ==
  LET shape == <<Max(q.shape[1], k.shape[1]), q.shape[2],
                 Max(q.shape[3], k.shape[3]), q.shape[4], k.shape[4]>>
      nd == Max(q.shape[5], k.shape[5])
      st == Strides(shape)
  IN  Tensor(shape,
        [i \in 1..Numel(shape) |->
           LET ix == Unravel(i - 1, shape, st)
           IN  <<"sum",
                 [j \in 1..(k.shape[2] * nd) |->
                    LET n == (j - 1) \div nd
                        d == (j - 1) % nd
                    IN  <<At(q, <<Bcast(ix[1], q.shape[1]), ix[2],
                                  Bcast(ix[3], q.shape[3]), ix[4],
                                  Bcast(d, q.shape[5])>>),
                          At(k, <<Bcast(ix[1], k.shape[1]), n,
                                  Bcast(ix[3], k.shape[3]), ix[5],
                                  Bcast(d, k.shape[5])>>)>>] \o <<>>>>])

\* torch.einsum("bmhts,bnhsd->bmhtd", p, v): whether the operands fit
CanEinsumOutput(p, v) ==
  /\ Len(p.shape) = 5 /\ Len(v.shape) = 5
  /\ Compatible(p.shape[1], v.shape[1])
  /\ Compatible(p.shape[3], v.shape[3])
  /\ Compatible(p.shape[5], v.shape[4])

\* torch.einsum("bmhts,bnhsd->bmhtd", p, v): n and s are summed
EinsumOutput(p, v) ==
  LET shape == <<Max(p.shape[1], v.shape[1]), p.shape[2],
                 Max(p.shape[3], v.shape[3]), p.shape[4], v.shape[5]>>
      ns == Max(p.shape[5], v.shape[4])
      st == Strides(shape)
  IN  Tensor(shape,
        [i \in 1..Numel(shape) |->
           LET ix == Unravel(i - 1, shape, st)
           IN  <<"sum",
                 [j \in 1..(v.shape[2] * ns) |->
                    LET n == (j - 1) \div ns
                        s == (j - 1) % ns
                    IN  <<At(p, <<Bcast(ix[1], p.shape[1]), ix[2],
                                  Bcast(ix[3], p.shape[3]), ix[4],
                                  Bcast(s, p.shape[5])>>),
                          At(v, <<Bcast(ix[1], v.shape[1]), n,
                                  Bcast(ix[3], v.shape[3]),
                                  Bcast(s, v.shape[4]), ix[5]>>)>>] \o <<>>>>])

\* torch.bmm(a, b) of a (r, t, k) and b (r, k, s)
Bmm(a, b) ==
  LET shape == <<a.shape[1], a.shape[2], b.shape[3]>>
      st == Strides(shape)
  IN  Tensor(shape,
        [i \in 1..Numel(shape) |->
           LET ix == Unravel(i - 1, shape, st)
           IN  <<"sum",
                 [j \in 1..a.shape[3] |->
                    <<At(a, <<ix[1], ix[2], j - 1>>),
                      At(b, <<ix[1], j - 1, ix[3]>>)>>] \o <<>>>>])

\* nn.functional.softmax(w, dim=-1): element s of the softmax of row r of w
Softmax(w) ==
  LET width == w.shape[Len(w.shape)]
  IN  Tensor(w.shape,
        [k \in 1..Len(w.data) |-> <<"softmax", (k - 1) \div width, (k - 1) % width>>])

\* nn.Linear named name applied to the last dimension of x: channel c of the
\* projection of row r of x
LinearOfRows(x, name) ==
  LET width == x.shape[Len(x.shape)]
  IN  Tensor(x.shape,
        [k \in 1..Len(x.data) |-> <<name, (k - 1) \div width, (k - 1) % width>>])

\* w + attention_mask: whether the two shapes broadcast
CanAddMask(w, attention_mask) ==
  /\ Len(w.shape) = Len(attention_mask.shape)
  /\ \A i \in 1..Len(w.shape) : Compatible(w.shape[i], attention_mask.shape[i])

\* w + attention_mask, w of shape (bsz, heads, tgt, src), with broadcasting
AddMask(w, attention_mask) ==
  LET shape == [i \in 1..Len(w.shape) |-> Max(w.shape[i], attention_mask.shape[i])]
      st == Strides(shape)
  IN  Tensor(shape,
        [k \in 1..Numel(shape) |->
           LET ix == Unravel(k - 1, shape, st)
           IN  <<"add",
                 At(w, [i \in 1..Len(shape) |-> Bcast(ix[i], w.shape[i])]),
                 At(attention_mask,
                    [i \in 1..Len(shape) |-> Bcast(ix[i], attention_mask.shape[i])])>>])

\* layer_head_mask.view(1, -1, 1, 1) * w, w of shape (bsz, heads, tgt, src)
MulHeadMask(layer_head_mask, w) ==
  Tensor(w.shape,
    [k \in 1..Len(w.data) |->
       <<"mul", layer_head_mask.data[Unravel(k - 1, w.shape, w.strides)[2] + 1], w.data[k]>>])

\* nn.functional.dropout(x, p, training): the identity when p = 0
Dropout(x, p) ==
  IF p = 0 THEN x
  ELSE Tensor(x.shape, [k \in 1..Len(x.data) |-> <<"dropout", x.data[k]>>])

\* MarianAttention._shape: (bsz, seq, embed) -> (bsz, heads, seq, head_dim)
Shape(self, tensor, seq_len, bsz) ==
  Transpose(View(tensor, <<bsz, seq_len, self.num_heads, self.head_dim>>), 1, 2)
\* ------------------------------------------------- MarianAttentionV2.forward
\* what a call of forward gives back: status is "returned" or the exception
\* raised, line the source line of the return or raise, softmax whether the
\* softmax normalization was executed, the three returned elements, and the
\* two tensors their elements name rows of: logits, the scores the softmax
\* normalizes, and context, the weighted values out_proj projects
Result(status, line, softmax, attn_output, attn_weights_reshaped, past_key_value, logits, context) ==
  [status |-> status, line |-> line, softmax |-> softmax,
   attn_output |-> attn_output,
   attn_weights_reshaped |-> attn_weights_reshaped,
   past_key_value |-> past_key_value,
   logits |-> logits, context |-> context]

Raise(status, line, softmax) ==
  Result(status, line, softmax, None, None, NoCache, None, None)

\* cache_bsz of the decoder branch
CacheBsz(self, bsz) == IF self.is_decoder THEN bsz \div self.num_beams ELSE bsz

\* variant in which cache_bsz is assigned before the is_decoder branch
CacheBszBoundAlways(self) == TRUE

\* whether the local cache_bsz has been assigned when the score step reads it
CacheBszBound(self) == self.is_decoder

\* variant without the inner test "if past_key_value is None"
StoresCrossCacheAlways(self, is_cross_attention, past) ==
  self.is_decoder /\ is_cross_attention

\* the branch that stores a new cross-attention cache
StoresCrossCache(self, is_cross_attention, past) ==
  self.is_decoder /\ is_cross_attention /\ past = NoCache

\* variant of the query view that lets the view infer the beam dimension
QueryShapeInferBeams(self, cache_bsz, tgt_len) ==
  <<cache_bsz, -1, self.num_heads, tgt_len, self.head_dim>>

\* the shape the query is viewed in for the cross-attention contraction
QueryShape(self, cache_bsz, tgt_len) ==
  <<cache_bsz, self.num_beams, self.num_heads, tgt_len, self.head_dim>>

\* variant that concatenates the cache after the current projection
KeyValueStatesPrepend(is_cross_attention, past, i, projected) ==
  IF is_cross_attention /\ past # NoCache THEN past[i]
  ELSE IF past # NoCache THEN Cat(projected, past[i], 2)
  ELSE projected

\* "get key, value proj": entry i of the cache, or the projection, or both
KeyValueStates(is_cross_attention, past, i, projected) ==
  IF is_cross_attention /\ past # NoCache THEN past[i]
  ELSE IF past # NoCache THEN Cat(past[i], projected, 2)
  ELSE projected

\* cache_shape of the cross-attention cache
CrossCacheShape(self, cache_bsz) ==
  <<cache_bsz, self.num_beams, self.num_heads, -1, self.head_dim>>

\* states.view(cache_shape)[:, 0 : 1, :, :, :].contiguous()
CrossCacheEntry(self, states, cache_bsz) ==
  SliceFirstBeam(View(states, CrossCacheShape(self, cache_bsz)))

\* states.view(bsz, num_heads, -1, head_dim) of the self-attention cache
SelfCacheEntry(self, states, bsz) ==
  View(states, <<bsz, self.num_heads, -1, self.head_dim>>)

\* variant that hands out the weights without the view to four dimensions
AttnWeightsFlat(self, output_attentions, attn_weights, bsz, tgt_len, src_len) ==
  IF output_attentions THEN attn_weights ELSE None

\* the second returned element
AttnWeightsReshaped(self, output_attentions, attn_weights, bsz, tgt_len, src_len) ==
  IF output_attentions
  THEN View(attn_weights, <<bsz, self.num_heads, tgt_len, src_len>>)
  ELSE None

\* variant without the reshape to (bsz, tgt, embed_dim)
ContextNoReshape(self, attn_output, bsz, tgt_len, embed_dim) ==
  Transpose(View(attn_output, <<bsz, self.num_heads, tgt_len, self.head_dim>>), 1, 2)

\* view to (bsz, heads, tgt, head_dim), transpose(1, 2), reshape to
\* (bsz, tgt, embed_dim): the tensor out_proj is applied to
Context(self, attn_output, bsz, tgt_len, embed_dim) ==
  View(Transpose(View(attn_output,
                      <<bsz, self.num_heads, tgt_len, self.head_dim>>), 1, 2),
       <<bsz, tgt_len, embed_dim>>)

\* variant that expects a square (tgt_len, tgt_len) mask
MaskShapeSquare(bsz, tgt_len, src_len) == <<bsz, 1, tgt_len, tgt_len>>

\* the shape an attention_mask must have
MaskShape(bsz, tgt_len, src_len) == <<bsz, 1, tgt_len, src_len>>

\* is_cross_attention, and bsz, tgt_len, embed_dim = hidden_states.size()
IsCrossAttention(a) == a.key_value_states # None

BszOf(a) == a.hidden_states.shape[1]

TgtLenOf(a) == a.hidden_states.shape[2]

EmbedDimOf(a) == a.hidden_states.shape[3]

\* proj_shape
ProjShape(self, a) == <<BszOf(a) * self.num_heads, -1, self.head_dim>>

\* (bsz * num_heads, tgt_len, src_len)
WeightsShape(self, a, src_len) == <<BszOf(a) * self.num_heads, TgtLenOf(a), src_len>>

\* (bsz, num_heads, tgt_len, src_len)
FullShape(self, a, src_len) == <<BszOf(a), self.num_heads, TgtLenOf(a), src_len>>

\* the third returned element, from the key and value the cache update leaves
PastKeyValue(self, a, key_states, value_states) ==
  IF self.is_decoder
     /\ (StoresCrossCache(self, IsCrossAttention(a), a.past_key_value)
         \/ ~IsCrossAttention(a))
  THEN <<key_states, value_states>>
  ELSE a.past_key_value

\* out_proj and the return
Return(self, a, key_states, value_states, src_len, logits, attn_weights, context) ==
  Result("returned", 173, TRUE,
         LinearOfRows(context, "out_proj"),
         AttnWeightsReshaped(self, a.output_attentions, attn_weights,
                             BszOf(a), TgtLenOf(a), src_len),
         PastKeyValue(self, a, key_states, value_states),
         logits, context)

\* the size check of attn_output, and its reshape to (bsz, tgt_len, embed_dim)
CheckOutput(self, a, key_states, value_states, src_len, logits, attn_weights, attn_output) ==
  IF attn_output.shape # <<BszOf(a) * self.num_heads, TgtLenOf(a), self.head_dim>>
  THEN Raise("ValueError", 163, TRUE)
  ELSE Return(self, a, key_states, value_states, src_len, logits, attn_weights,
              Context(self, attn_output, BszOf(a), TgtLenOf(a), EmbedDimOf(a)))

\* the shape attn_probs is viewed in for the cross-attention contraction
ProbsShape(self, a, src_len) ==
  <<CacheBsz(self, BszOf(a)), self.num_beams, self.num_heads, TgtLenOf(a), src_len>>

\* the weighted values: the beam-broadcast contraction in cross-attention, a
\* batched matrix product in self-attention
WeightedValues(self, a, key_states, value_states, src_len, logits, attn_weights, attn_probs) ==
  IF IsCrossAttention(a) /\ ~CanView(attn_probs, ProbsShape(self, a, src_len))
    THEN Raise("RuntimeError", 157, TRUE)
  ELSE IF IsCrossAttention(a)
          /\ ~CanEinsumOutput(View(attn_probs, ProbsShape(self, a, src_len)), value_states)
    THEN Raise("RuntimeError", 158, TRUE)
  ELSE CheckOutput(self, a, key_states, value_states, src_len, logits, attn_weights,
         IF IsCrossAttention(a)
         THEN View(EinsumOutput(View(attn_probs, ProbsShape(self, a, src_len)),
                                value_states),
                   <<-1, TgtLenOf(a), self.head_dim>>)
         ELSE Bmm(attn_probs, View(value_states, ProjShape(self, a))))

\* the dropout of the weights
Probs(self, a, key_states, value_states, src_len, logits, attn_weights) ==
  WeightedValues(self, a, key_states, value_states, src_len, logits, attn_weights,
                 Dropout(attn_weights, self.dropout))

\* the check and the application of layer_head_mask
HeadMask(self, a, key_states, value_states, src_len, logits, normalized) ==
  IF a.layer_head_mask # None /\ a.layer_head_mask.shape # <<self.num_heads>>
    THEN Raise("ValueError", 138, TRUE)
  ELSE IF a.layer_head_mask # None
    THEN Probs(self, a, key_states, value_states, src_len, logits,
               View(MulHeadMask(a.layer_head_mask,
                                View(normalized, FullShape(self, a, src_len))),
                    WeightsShape(self, a, src_len)))
  ELSE Probs(self, a, key_states, value_states, src_len, logits, normalized)

\* the softmax over the source positions
Normalize(self, a, key_states, value_states, src_len, logits) ==
  HeadMask(self, a, key_states, value_states, src_len, logits, Softmax(logits))

\* the view of the biased scores back to (bsz * num_heads, tgt_len, src_len)
Biased(self, a, key_states, value_states, src_len, biased) ==
  IF ~CanView(biased, WeightsShape(self, a, src_len))
  THEN Raise("RuntimeError", 132, FALSE)
  ELSE Normalize(self, a, key_states, value_states, src_len,
                 View(biased, WeightsShape(self, a, src_len)))

\* the size check of the scores, the check and the addition of attention_mask
CheckWeights(self, a, key_states, value_states, src_len, scores) ==
  IF scores.shape # WeightsShape(self, a, src_len)
    THEN Raise("AssertionError", IF IsCrossAttention(a) THEN 111 ELSE 118, FALSE)
  ELSE IF a.attention_mask = None
    THEN Normalize(self, a, key_states, value_states, src_len, scores)
  ELSE IF a.attention_mask.shape # MaskShape(BszOf(a), TgtLenOf(a), src_len)
    THEN Raise("ValueError", 128, FALSE)
  ELSE IF ~CanAddMask(View(scores, FullShape(self, a, src_len)), a.attention_mask)
    THEN Raise("RuntimeError", 131, FALSE)
  ELSE Biased(self, a, key_states, value_states, src_len,
              AddMask(View(scores, FullShape(self, a, src_len)), a.attention_mask))

\* the scores: the beam-broadcast contraction of the query, viewed by beam
\* group, with the cache in cross-attention; a batched matrix product with
\* the transposed key in self-attention
Scores(self, a, key_states, value_states, query_states) ==
  IF IsCrossAttention(a) /\ ~CacheBszBound(self)
    THEN Raise("UnboundLocalError", 106, FALSE)
  ELSE IF IsCrossAttention(a)
          /\ ~CanView(query_states, QueryShape(self, CacheBsz(self, BszOf(a)), TgtLenOf(a)))
    THEN Raise("RuntimeError", 106, FALSE)
  ELSE IF IsCrossAttention(a)
          /\ ~CanEinsumScores(
                View(query_states, QueryShape(self, CacheBsz(self, BszOf(a)), TgtLenOf(a))),
                key_states)
    THEN Raise("RuntimeError", 109, FALSE)
  ELSE IF IsCrossAttention(a)
    THEN CheckWeights(self, a, key_states, value_states, key_states.shape[4],
           View(EinsumScores(
                  View(query_states,
                       QueryShape(self, CacheBsz(self, BszOf(a)), TgtLenOf(a))),
                  key_states),
                <<-1, TgtLenOf(a), key_states.shape[4]>>))
  ELSE CheckWeights(self, a, key_states, value_states,
                    View(key_states, ProjShape(self, a)).shape[2],
                    Bmm(query_states,
                        Transpose(View(key_states, ProjShape(self, a)), 1, 2)))

\* the query in proj_shape
Query(self, a, key_states, value_states) ==
  Scores(self, a, key_states, value_states,
         View(Shape(self, Scale(Linear(a.hidden_states, "q_proj"), "scaling"),
                    TgtLenOf(a), BszOf(a)),
              ProjShape(self, a)))

\* "Update cache": the decoder stores the first beam of every group of a new
\* cross-attention cache, or the whole self-attention key and value; any
\* other instance asserts that it was given no cache
UpdateCache(self, a, key_states, value_states) ==
  IF ~self.is_decoder /\ a.past_key_value # NoCache
    THEN Raise("AssertionError", 100, FALSE)
  ELSE IF StoresCrossCache(self, IsCrossAttention(a), a.past_key_value)
    THEN IF ~CanView(key_states, CrossCacheShape(self, CacheBsz(self, BszOf(a))))
         THEN Raise("RuntimeError", 86, FALSE)
         ELSE Query(self, a,
                    CrossCacheEntry(self, key_states, CacheBsz(self, BszOf(a))),
                    CrossCacheEntry(self, value_states, CacheBsz(self, BszOf(a))))
  ELSE IF self.is_decoder /\ ~IsCrossAttention(a)
    THEN Query(self, a, SelfCacheEntry(self, key_states, BszOf(a)),
               SelfCacheEntry(self, value_states, BszOf(a)))
  ELSE Query(self, a, key_states, value_states)

\* "get key, value proj"
KeyValueProj(self, a, new_key, new_value) ==
  IF ~IsCrossAttention(a) /\ a.past_key_value # NoCache
     /\ ~CanCat(a.past_key_value[1], new_key, 2)
  THEN Raise("RuntimeError", 70, FALSE)
  ELSE UpdateCache(self, a,
         KeyValueStates(IsCrossAttention(a), a.past_key_value, 1, new_key),
         KeyValueStates(IsCrossAttention(a), a.past_key_value, 2, new_value))

\* forward(hidden_states, key_value_states, past_key_value, attention_mask,
\* layer_head_mask, output_attentions), a the record of the arguments
Forward(self, a) ==
  KeyValueProj(self, a,
    Shape(self, Linear(IF IsCrossAttention(a) THEN a.key_value_states
                       ELSE a.hidden_states, "k_proj"), -1, BszOf(a)),
    Shape(self, Linear(IF IsCrossAttention(a) THEN a.key_value_states
                       ELSE a.hidden_states, "v_proj"), -1, BszOf(a)))
\* ------------------------------------------------------------------ inputs
EmbedDim(self) == self.num_heads * self.head_dim

\* decoder hidden states of the tokens at positions pos .. pos + tgt_len - 1
HiddenStates(self, bsz, tgt_len, pos) ==
  LET shape == <<bsz, tgt_len, EmbedDim(self)>>
      st == Strides(shape)
  IN  Tensor(shape,
        [k \in 1..Numel(shape) |->
           LET ix == Unravel(k - 1, shape, st) IN <<"h", ix[1], pos + ix[2], ix[3]>>])

\* encoder output handed to cross-attention, one row per batch row
EncoderStates(self, bsz, src_len) ==
  LET shape == <<bsz, src_len, EmbedDim(self)>>
      st == Strides(shape)
  IN  Tensor(shape,
        [k \in 1..Numel(shape) |->
           LET ix == Unravel(k - 1, shape, st) IN <<"e", ix[1], ix[2], ix[3]>>])

AttentionMask(shape) ==
  Tensor(shape, [k \in 1..Numel(shape) |-> <<"mask", k - 1>>])

LayerHeadMask(n) == Tensor(<<n>>, [k \in 1..n |-> <<"head", k - 1>>])

\* a self-attention cache of past_len positions for a batch of bsz rows
SelfCacheOf(self, bsz, past_len) ==
  <<Shape(self, Linear(HiddenStates(self, bsz, past_len, 0), "k_proj"), -1, bsz),
    Shape(self, Linear(HiddenStates(self, bsz, past_len, 0), "v_proj"), -1, bsz)>>

\* a cross-attention cache of groups beam groups over src_len source positions
CrossCacheOf(self, groups, src_len) ==
  LET bsz == groups * self.num_beams
      enc == EncoderStates(self, bsz, src_len)
  IN  <<CrossCacheEntry(self, Shape(self, Linear(enc, "k_proj"), -1, bsz), groups),
        CrossCacheEntry(self, Shape(self, Linear(enc, "v_proj"), -1, bsz), groups)>>

\* the row counts of the caches a caller hands over: the count that fits the
\* call, one less and one more
RowChoices(rows) == {r \in {rows - 1, rows, rows + 1} : r >= 1}

\* the caches a caller can hand to a call: none, or a cache built by an
\* earlier generation, for cross-attention over the same src source positions
PastChoices(self, bsz, src) ==
  {NoCache}
  \cup (IF src > 0
        THEN {CrossCacheOf(self, g, src) : g \in RowChoices(bsz \div self.num_beams)}
        ELSE {SelfCacheOf(self, b, l) : b \in RowChoices(bsz), l \in 1..MaxPastLen})

\* number of positions a self-attention cache holds
PastLen(past) == IF past = NoCache THEN 0 ELSE past[1].shape[3]

\* src_len of a call, from its arguments
SrcLenOf(key_value_states, past, tgt_len) ==
  IF key_value_states # None
  THEN IF past # NoCache THEN past[1].shape[4] ELSE key_value_states.shape[2]
  ELSE PastLen(past) + tgt_len

\* the attention masks a caller can pass: none, the right shape, a wrong
\* source length
MaskChoices(bsz, tgt_len, src_len) ==
  {None, AttentionMask(<<bsz, 1, tgt_len, src_len>>),
   AttentionMask(<<bsz, 1, tgt_len, src_len + 1>>)}

HeadMaskChoices(self) ==
  {None, LayerHeadMask(self.num_heads), LayerHeadMask(self.num_heads + 1)}

Args(hidden_states, key_value_states, past, attention_mask, layer_head_mask, output_attentions) ==
  [hidden_states |-> hidden_states, key_value_states |-> key_value_states,
   past_key_value |-> past, attention_mask |-> attention_mask,
   layer_head_mask |-> layer_head_mask, output_attentions |-> output_attentions]

NoCall == Args(None, None, NoCache, None, None, FALSE)

Idle == Raise("idle", 0, FALSE)

\* ------------------------------------------------------------- the program
\* self: the instance; call: the arguments of the latest call; ret: what it
\* gave back; steps: the calls made so far; pos: the position of the next
\* decoder token; fresh: whether the first call was given no cache
VARIABLES self, call, ret, steps, pos, fresh

vars == <<self, call, ret, steps, pos, fresh>>

\* __init__: the instance after construction, no call made yet
Init ==
  /\ self \in [is_decoder : BOOLEAN, num_beams : 1..MaxBeams,
               num_heads : {NumHeads}, head_dim : {HeadDim}, dropout : {0}]
  /\ call = NoCall
  /\ ret = Idle
  /\ steps = 0
  /\ pos = 0
  /\ fresh = TRUE

\* the first call of forward on the instance, with arguments of the caller's
\* choice
FirstCall ==
  /\ ret.status = "idle"
  /\ \E bsz \in 1..MaxBatch, tgt_len \in 1..MaxTgtLen, src \in 0..MaxSrcLen,
        output_attentions \in BOOLEAN :
       \E past \in PastChoices(self, bsz, src) :
         LET key_value_states ==
               IF src > 0 THEN EncoderStates(self, bsz, src) ELSE None
             base == IF src > 0 THEN 0 ELSE PastLen(past)
             hidden_states == HiddenStates(self, bsz, tgt_len, base)
         IN  \E attention_mask \in
                   MaskChoices(bsz, tgt_len, SrcLenOf(key_value_states, past, tgt_len)),
                layer_head_mask \in HeadMaskChoices(self) :
               LET args == Args(hidden_states, key_value_states, past,
                                attention_mask, layer_head_mask, output_attentions)
               IN  /\ call' = args
                   /\ ret' = Forward(self, args)
               /\ pos' = base + tgt_len
               /\ fresh' = (past = NoCache)
  /\ steps' = 1
  /\ UNCHANGED self

\* a further decode step: the caller passes the cache the previous call
\* returned, with the next token of the same batch and, when the previous
\* call had one, an attention mask of the shape that fits the step
NextCall ==
  /\ ret.status = "returned"
  /\ ret.past_key_value # NoCache
  /\ steps < MaxSteps
  /\ LET bsz == call.hidden_states.shape[1]
         past == ret.past_key_value
         tgt_len == 1
         hidden_states == HiddenStates(self, bsz, tgt_len, pos)
         src_len == SrcLenOf(call.key_value_states, past, tgt_len)
         args == Args(hidden_states, call.key_value_states, past,
                      IF call.attention_mask # None
                      THEN AttentionMask(<<bsz, 1, tgt_len, src_len>>)
                      ELSE None,
                      call.layer_head_mask, call.output_attentions)
     IN  /\ call' = args
         /\ ret' = Forward(self, args)
         /\ pos' = pos + tgt_len
  /\ steps' = steps + 1
  /\ UNCHANGED <<self, fresh>>

Next == FirstCall \/ NextCall

Spec == Init /\ [][Next]_vars
\* ---------------------------------------------------------------- properties
Called == ret.status # "idle"

Returned == ret.status = "returned"

IsCross == call.key_value_states # None

HadPast == call.past_key_value # NoCache

Bsz == call.hidden_states.shape[1]

TgtLen == call.hidden_states.shape[2]

SrcLen == SrcLenOf(call.key_value_states, call.past_key_value, TgtLen)

\* element c of the projection named name of row (b, s) of the tensor x
Projected(name, c, x, b, s) ==
  <<name, c, [i \in 1..x.shape[3] |-> At(x, <<b, s, i - 1>>)] \o <<>>>>

\* C1: every call that returns gives an attention output of the shape of
\* hidden_states
C1_OutputShape ==
  Returned => ret.attn_output.shape = call.hidden_states.shape

C1_Witness ==
  /\ Returned /\ ~IsCross /\ ~HadPast /\ self.num_beams = 1
  /\ Bsz >= 2 /\ TgtLen >= 2

\* C2: a cross-attention call without cache and with a batch divisible by
\* num_beams returns a cache of bsz / num_beams rows, row g holding the key
\* (value) projection of batch row g * num_beams
C2_CrossCacheFirstBeam ==
  (Returned /\ IsCross /\ ~HadPast /\ Bsz % self.num_beams = 0) =>
    \A i \in 1..2 :
      LET entry == ret.past_key_value[i]
          name == IF i = 1 THEN "k_proj" ELSE "v_proj"
          src_len == call.key_value_states.shape[2]
      IN  /\ entry.shape = <<Bsz \div self.num_beams, 1, self.num_heads,
                             src_len, self.head_dim>>
          /\ \A g \in 0..(Bsz \div self.num_beams) - 1, h \in 0..self.num_heads - 1,
                s \in 0..src_len - 1, d \in 0..self.head_dim - 1 :
               At(entry, <<g, 0, h, s, d>>)
                 = Projected(name, h * self.head_dim + d, call.key_value_states,
                             g * self.num_beams, s)

C2_Witness ==
  /\ Returned /\ IsCross /\ ~HadPast
  /\ self.num_beams = 2 /\ Bsz = 4 /\ ret.past_key_value[1].shape[1] = 2

\* C3: a decoder self-attention call with a cache of length L returns the
\* cache entries in their order followed by the projections of the current
\* hidden states, for the full batch, of length L + tgt_len; and after k
\* one-token steps that started without cache the cache holds k positions
C3_SelfCacheAppends ==
  /\ (Returned /\ ~IsCross /\ HadPast) =>
       \A i \in 1..2 :
         LET entry == ret.past_key_value[i]
             prior == call.past_key_value[i]
             name == IF i = 1 THEN "k_proj" ELSE "v_proj"
             L == prior.shape[3]
         IN  /\ entry.shape = <<Bsz, self.num_heads, L + TgtLen, self.head_dim>>
             /\ \A b \in 0..Bsz - 1, h \in 0..self.num_heads - 1,
                   l \in 0..L + TgtLen - 1, d \in 0..self.head_dim - 1 :
                  At(entry, <<b, h, l, d>>)
                    = IF l < L THEN At(prior, <<b, h, l, d>>)
                      ELSE Projected(name, h * self.head_dim + d,
                                     call.hidden_states, b, l - L)
  /\ (Returned /\ ~IsCross /\ self.is_decoder /\ fresh /\ pos = steps) =>
       /\ ret.past_key_value[1].shape[3] = steps
       /\ ret.past_key_value[2].shape[3] = steps

C3_Witness ==
  /\ Returned /\ ~IsCross /\ HadPast /\ fresh
  /\ pos = steps /\ steps = MaxSteps /\ Bsz >= 2

\* a tensor of the shape of x that shares no element with it
Other(x) == Tensor(x.shape, [k \in 1..Len(x.data) |-> <<"other", k>>])

\* C4: a cross-attention call given a cache does not project
\* key_value_states (its result does not depend on them) and returns the
\* pair it was given, so the cache is the same after every further step
C4_CrossCacheReused ==
  [][(ret'.status = "returned" /\ call'.key_value_states # None
        /\ call'.past_key_value # NoCache) =>
       /\ ret'.past_key_value = call'.past_key_value
       /\ Forward(self', [call' EXCEPT !.key_value_states = Other(@)]) = ret'
       /\ steps >= 1 => ret'.past_key_value = ret.past_key_value]_vars

C4_Witness ==
  /\ Returned /\ IsCross /\ HadPast /\ steps >= 2
  /\ self.num_beams = 2 /\ call.key_value_states.shape[2] = 2

WrongMask ==
  /\ Called
  /\ call.attention_mask # None
  /\ call.attention_mask.shape # <<Bsz, 1, TgtLen, SrcLen>>

\* C5 as stated: a mask of the wrong shape always gives a ValueError raised
\* before the softmax
C5_Original ==
  WrongMask => ret.status = "ValueError" /\ ~ret.softmax

\* C5: with a mask of the wrong shape the call returns nothing and never
\* executes the softmax; it raises the ValueError of the mask check unless
\* the same call without mask is aborted before that check, and then it
\* raises that earlier error
C5_WrongMaskFatal ==
  WrongMask =>
    LET unmasked == Forward(self, [call EXCEPT !.attention_mask = None])
    IN  /\ ~Returned
        /\ ~ret.softmax
        /\ IF unmasked.line < 128 THEN ret = unmasked
           ELSE ret.status = "ValueError" /\ ret.line = 128

C5_Witness ==
  /\ WrongMask /\ ret.status = "ValueError" /\ ret.line = 128 /\ ~ret.softmax
  /\ IsCross /\ TgtLen = 2 /\ SrcLen = 1

\* C6 as stated: on an instance that is not a decoder a call given a cache
\* fails its assertion, and a call that returns yields no cache
C6_Original ==
  /\ (Called /\ ~self.is_decoder /\ HadPast) => ret.status = "AssertionError"
  /\ (Returned /\ ~self.is_decoder) => ret.past_key_value = NoCache

\* C7: a call that returns yields the weights in the shape
\* (bsz, heads, tgt_len, src_len) when output_attentions is set, else None
C7_AttentionWeights ==
  Returned =>
    IF call.output_attentions
    THEN ret.attn_weights_reshaped.shape = <<Bsz, self.num_heads, TgtLen, SrcLen>>
    ELSE ret.attn_weights_reshaped = None

C7_Witness ==
  /\ Returned /\ call.output_attentions /\ ~IsCross /\ HadPast
  /\ ret.attn_weights_reshaped.shape[4] > TgtLen

\* the cache with the row of every beam group repeated once per beam:
\* (groups, 1, heads, src, head_dim) -> (groups * beams, heads, src, head_dim)
Replicated(entry, beams) ==
  LET shape == <<entry.shape[1] * beams, entry.shape[3], entry.shape[4], entry.shape[5]>>
      st == Strides(shape)
  IN  Tensor(shape,
        [k \in 1..Numel(shape) |->
           LET ix == Unravel(k - 1, shape, st)
           IN  At(entry, <<ix[1] \div beams, 0, ix[2], ix[3], ix[4]>>)])

\* the per-row computation of the unmodified attention: batched matrix
\* products of every (row, head) with its own copy of the key and the value
Baseline(a, cache) ==
  LET bsz == a.hidden_states.shape[1]
      tgt_len == a.hidden_states.shape[2]
      proj_shape == <<bsz * self.num_heads, -1, self.head_dim>>
      query == View(Shape(self, Scale(Linear(a.hidden_states, "q_proj"), "scaling"),
                          tgt_len, bsz), proj_shape)
      key == View(Replicated(cache[1], self.num_beams), proj_shape)
      value == View(Replicated(cache[2], self.num_beams), proj_shape)
      src_len == key.shape[2]
      full_shape == <<bsz, self.num_heads, tgt_len, src_len>>
      weights_shape == <<bsz * self.num_heads, tgt_len, src_len>>
      scores == Bmm(query, Transpose(key, 1, 2))
      masked == IF a.attention_mask # None
                THEN View(AddMask(View(scores, full_shape), a.attention_mask),
                          weights_shape)
                ELSE scores
      normalized == Softmax(masked)
      weights == IF a.layer_head_mask # None
                 THEN View(MulHeadMask(a.layer_head_mask, View(normalized, full_shape)),
                           weights_shape)
                 ELSE normalized
      context == View(Transpose(View(Bmm(weights, value),
                                     <<bsz, self.num_heads, tgt_len, self.head_dim>>),
                                1, 2),
                      <<bsz, tgt_len, self.num_heads * self.head_dim>>)
  IN  [logits |-> masked,
       attn_weights |-> View(weights, full_shape),
       context |-> context,
       attn_output |-> LinearOfRows(context, "out_proj")]

\* the cache of the call has one row per beam group of the batch
GroupedCache ==
  /\ Bsz % self.num_beams = 0
  /\ ret.past_key_value[1].shape[1] = Bsz \div self.num_beams
  /\ ret.past_key_value[1].shape[2] = 1

\* C8: in cross-attention with bsz = groups * num_beams, row b and head h
\* are computed from the query of row b and the cache row of group
\* b div num_beams: scores, weights and output equal those of the per-row
\* computation over the replicated cache, in the order (bsz, heads, tgt, src)
C8_BeamBroadcast ==
  (Returned /\ IsCross /\ GroupedCache) =>
    LET base == Baseline(call, ret.past_key_value)
    IN  /\ ret.logits = base.logits
        /\ ret.context = base.context
        /\ ret.attn_output = base.attn_output
        /\ call.output_attentions => ret.attn_weights_reshaped = base.attn_weights

C8_Witness ==
  /\ Returned /\ IsCross /\ GroupedCache /\ call.output_attentions
  /\ self.num_beams = 2 /\ Bsz = 4 /\ TgtLen = 2 /\ SrcLen = 2

\* C9: cross-attention on an instance that is not a decoder never returns:
\* with a cache the assertion fails, without one the score step reads the
\* unassigned cache_bsz
C9_EncoderCrossAborts ==
  (Called /\ IsCross /\ ~self.is_decoder) =>
    IF HadPast
    THEN ret.status = "AssertionError" /\ ret.line = 100
    ELSE ret.status = "UnboundLocalError" /\ ret.line = 106

C9_Witness ==
  /\ Called /\ IsCross /\ ~self.is_decoder /\ ~HadPast /\ self.num_beams = 1
  /\ ret.status = "UnboundLocalError"

\* C10: decoder cross-attention without cache and with a batch that
\* num_beams does not divide aborts at the cache view or at the query view,
\* so a cache returned by a first cross-attention call has bsz / num_beams
\* rows exactly
C10_NonDivisibleAborts ==
  /\ (Called /\ IsCross /\ self.is_decoder /\ ~HadPast
        /\ Bsz % self.num_beams # 0) =>
       ret.status = "RuntimeError" /\ ret.line \in {86, 106}
  /\ (Returned /\ IsCross /\ ~HadPast) =>
       ret.past_key_value[1].shape[1] * self.num_beams = Bsz

C10_Witness ==
  /\ Called /\ IsCross /\ self.is_decoder /\ ~HadPast
  /\ Bsz % self.num_beams # 0 /\ Bsz > self.num_beams
  /\ ret.status = "RuntimeError" /\ ret.line = 106
====
